---- MODULE Spec2Model ----
(***************************************************************************)
(* hyperacme: the ACME client's account bootstrap (src/dir.rs) and order   *)
(* life cycle (src/order/mod.rs), with the signed-request Transport and    *)
(* the NoncePool they call into.                                           *)
(*                                                                         *)
(* Every async fn is cut at its suspension points: the nonce fetch and the *)
(* HTTP exchange of each transport call, and the poll sleep. A task is one *)
(* caller future; tasks interleave at those points.                        *)
(***************************************************************************)
EXTENDS Integers, Sequences, FiniteSets, Bags, TLC

VARIABLES
    pool,        \* Directory.nonce_pool: the buffered nonces, oldest first
    nonceUses,   \* history: how many signed requests carried each live nonce
    transports,  \* the Transport made by each upsert_account still alive
    newOrders,   \* the NewOrder facades, indexed by order URL
    csrOrders,   \* the CsrOrder facades the caller holds (a bag)
    certOrders,  \* the CertOrder facades the caller holds (a bag)
    history,     \* history, per order URL: CsrOrders yielded, finalize calls, keys
    task,        \* per caller task: the running operation and its position
    ret          \* what the latest step returned to the caller, if anything

vars == <<pool, nonceUses, transports, newOrders, csrOrders,
          certOrders, history, task, ret>>

-----------------------------------------------------------------------------
(* Bounds of the model *)

MaxNonce == 4
MaxTransports == 2
MaxOrders == 1
MaxCsr == 2
MaxDelay == 2
MaxRetryAfter == 2
MaxPolls == 3
MaxAuths == 2

Tasks == {"t1", "t2"}
Keys == {"k1", "k2"}

\* the private keys a caller finalizes with
PKeys == {"p1", "p2"}

\* Order.status values of the ACME order object
Status == {"pending", "ready", "processing", "valid", "invalid"}

\* a response body: an order in one of the statuses, or one that does not decode
Bodies == Status \cup {"garbage"}

\* the authorization URLs of an order: its authorizations list (empty when
\* the order has none)
AuthUrls == {"a1", "a2"}
AuthLists == UNION {[1..n -> AuthUrls] : n \in 0..MaxAuths}

-----------------------------------------------------------------------------
(* NoncePool and Transport: the nonce buffer and the signed request *)

\* the pool keeps at most this many buffered nonces
NonceCap == 10

\* the number of times a call is retried after a badNonce answer
RetryLimit == 3

\* NoncePool: buffer the Replay-Nonce of a response, dropping the oldest
\* beyond the cap
pool_deposit(q, n) ==
    LET q2 == Append(q, n)
    IN  IF Len(q2) > NonceCap THEN Tail(q2) ELSE q2

\* NoncePool: the buffered nonce handed to a signing attempt, and what stays
pool_take_again(q) == [nonce |-> Head(q), rest |-> q]
pool_take(q) == [nonce |-> Head(q), rest |-> Tail(q)]

\* Transport.call signs in KID form with the transport's key id;
\* Transport.call_jwk signs in JWK form
protected_header(t, mode) ==
    IF mode = "jwk"
    THEN [form |-> "jwk", kid |-> "none"]
    ELSE [form |-> "kid", kid |-> transports[t].key_id]

\* whether a badNonce answer to an attempt that followed `tries` retries is
\* retried once more
retry_always(tries) == TRUE
retry_bad_nonce(tries) == tries < RetryLimit

-----------------------------------------------------------------------------
(* The order object and the facades over it *)

is_status_ready(api_order) == api_order.status = "ready"
is_status_valid(api_order) == api_order.status = "valid"
is_status_processing(api_order) == api_order.status = "processing"

\* NewOrder::is_validated
is_validated_if_ready(order) == is_status_ready(order)
is_validated_if_not_invalid(order) == order.status # "invalid"
is_validated(order) == is_status_ready(order) \/ is_status_valid(order)

\* wait_for_order_status: whether the loop sleeps and polls again after a
\* poll that returned this order
poll_again_never(order) == FALSE
poll_again_unless_final(order) == order.status \notin {"valid", "invalid"}
poll_again(order) == is_status_processing(order)

\* wait_for_order_status: the length of the sleep that follows a poll which
\* found the order processing; retry_after is the response's Retry-After
\* header (0: absent)
poll_sleep_max(delay, retry_after) ==
    IF retry_after > delay THEN retry_after ELSE delay
poll_sleep(delay, retry_after) == delay

\* finalize_pkey: what it returns for the order the polling loop ended on
finalize_result_unchecked(order) == "ok"
finalize_result(order) == IF is_status_valid(order) THEN "ok" ELSE "err"

-----------------------------------------------------------------------------
(* Caller tasks *)

\* nothing was returned
NoReturn ==
    [op |-> "none", obj |-> 0, res |-> "none", seen |-> "none",
     why |-> "none", tries |-> 0, calls |-> 0, sleeps |-> 0, key |-> "none",
     asked |-> <<>>, auths |-> <<>>]

\* no Transport
NoTransport == [key |-> "none", key_id |-> "none", account |-> FALSE]

IdleTask ==
    [op |-> "idle", pc |-> "idle", tr |-> 0, obj |-> 0, url |-> "none",
     mode |-> "none", nonce |-> 0, tries |-> 0, delay |-> 0, ra |-> 0,
     slept |-> 0, seen |-> "none", calls |-> 0, sleeps |-> 0, pkey |-> "none",
     asked |-> <<>>, got |-> <<>>]

\* a task that may start an operation: it awaits nothing
Free(p) == task[p].pc = "idle"

\* the operation entering Transport.call / call_jwk on transport t
Calling(op, t, obj, url, mode) ==
    [IdleTask EXCEPT !.op = op, !.pc = "nonce", !.tr = t, !.obj = obj,
                     !.url = url, !.mode = mode, !.calls = 1]

\* operation tk returning r to the caller, after tk.calls transport calls and
\* tk.sleeps sleeps
Ret(tk, r, why) ==
    [op |-> tk.op, obj |-> tk.obj, res |-> r, seen |-> tk.seen, why |-> why,
     tries |-> tk.tries, calls |-> tk.calls, sleeps |-> tk.sleeps,
     key |-> "none", asked |-> tk.asked, auths |-> <<>>]

\* an operation that sends nothing and awaits nothing returns at once
Immediate(op, o, seen, r) ==
    Ret([IdleTask EXCEPT !.op = op, !.obj = o, !.seen = seen], r, "none")

Init ==
    /\ pool = <<>>
    /\ nonceUses = [n \in 1..MaxNonce |-> 0]
    /\ transports = [t \in 1..MaxTransports |-> NoTransport]
    /\ newOrders = <<>>
    /\ csrOrders = EmptyBag
    /\ certOrders = EmptyBag
    /\ history = <<>>
    /\ task = [p \in Tasks |-> IdleTask]
    /\ ret = NoReturn

-----------------------------------------------------------------------------
(* Transport.call: fetch a nonce, sign, POST, read the answer *)

\* the nonces the client holds a copy of: buffered, or held by a signing attempt
Outstanding ==
    {pool[i] : i \in DOMAIN pool} \cup {task[p].nonce : p \in Tasks}

\* server: the nonce it issues next. Nonces are single-use tokens; a name is
\* issued again only once the client holds no copy of it and it is not one
\* the client sent twice.
Issuable == {n \in (1..MaxNonce) \ Outstanding : nonceUses[n] = 0}
FreshNonce == CHOOSE n \in Issuable : \A m \in Issuable : n <= m

\* the error of a transport call ends the operation: `?` returns it, and
\* a Transport local to the operation is dropped
Fails_retries_poll(p, why) ==
    IF task[p].op = "finalize" /\ task[p].url = "order"
    THEN /\ task' = [task EXCEPT ![p] =
                   [@ EXCEPT !.pc = "nonce", !.nonce = 0, !.tries = 0]]
         /\ ret' = NoReturn
         /\ UNCHANGED transports
    ELSE /\ task' = [task EXCEPT ![p] = IdleTask]
         /\ ret' = Ret(task[p], "err", why)
         /\ transports' = IF task[p].op = "upsert"
                          THEN [transports EXCEPT ![task[p].tr] = NoTransport]
                          ELSE transports
Fails(p, why) ==
    /\ task' = [task EXCEPT ![p] = IdleTask]
    /\ ret' = Ret(task[p], "err", why)
    /\ transports' = IF task[p].op = "upsert"
                     THEN [transports EXCEPT ![task[p].tr] = NoTransport]
                     ELSE transports

\* step 1: the pool hands out a buffered nonce, else asks the server for one
\* (HEAD newNonce), which may fail
nonce_fetch(p) ==
    /\ task[p].pc = "nonce"
    /\ UNCHANGED <<nonceUses, newOrders, csrOrders, certOrders, history>>
    /\ IF pool # <<>>
       THEN /\ pool' = pool_take(pool).rest
            /\ task' = [task EXCEPT ![p] =
                            [@ EXCEPT !.pc = "post", !.nonce = pool_take(pool).nonce]]
            /\ ret' = NoReturn
            /\ UNCHANGED transports
       ELSE \/ /\ Issuable # {}
               /\ task' = [task EXCEPT ![p] =
                               [@ EXCEPT !.pc = "post", !.nonce = FreshNonce]]
               /\ ret' = NoReturn
               /\ UNCHANGED <<pool, transports>>
            \/ /\ Fails(p, "head")
               /\ UNCHANGED pool

\* the signing attempt of task p is the only holder of its nonce: the pool
\* and the other attempts have no copy of it
SoleHolder(p) ==
    /\ \A i \in DOMAIN pool : pool[i] # task[p].nonce
    /\ \A q \in Tasks \ {p} : task[q].nonce # task[p].nonce

\* the signed request the attempt of task p, holding its nonce, puts on the
\* wire: the protected header's url, nonce, and jwk or kid
Request(p) ==
    [tr |-> task[p].tr, url |-> task[p].url, nonce |-> task[p].nonce,
     form |-> protected_header(task[p].tr, task[p].mode).form,
     kid |-> protected_header(task[p].tr, task[p].mode).kid]

\* steps 2-4: the envelope is signed with the held nonce and POSTed; the
\* Replay-Nonce of the response, when it has one (rn), is buffered. A nonce
\* sent once of which the client keeps no copy can never be sent again: its
\* name and its count are released.
Exchange(p, rn) ==
    /\ task[p].pc = "post"
    /\ nonceUses' = [nonceUses EXCEPT ![task[p].nonce] =
                        IF @ = 0 /\ SoleHolder(p) THEN 0 ELSE @ + 1]
    /\ IF rn
       THEN /\ Issuable # {}
            /\ pool' = pool_deposit(pool, FreshNonce)
       ELSE UNCHANGED pool

\* the request gets no response (network failure): the call fails
call_neterr(p) ==
    /\ Exchange(p, FALSE)
    /\ Fails(p, "neterr")
    /\ UNCHANGED <<newOrders, csrOrders, certOrders, history>>

\* status >= 400 with a problem document that is not badNonce: the call fails
call_problem(p, rn) ==
    /\ Exchange(p, rn)
    /\ Fails(p, "problem")
    /\ UNCHANGED <<newOrders, csrOrders, certOrders, history>>

\* status >= 400 with a badNonce problem: retried with a fresh nonce, a
\* bounded number of times
call_bad_nonce(p, rn) ==
    /\ Exchange(p, rn)
    /\ IF retry_bad_nonce(task[p].tries)
       THEN /\ task' = [task EXCEPT ![p] =
                           [@ EXCEPT !.pc = "nonce", !.nonce = 0, !.tries = @ + 1]]
            /\ ret' = NoReturn
            /\ UNCHANGED transports
       ELSE Fails(p, "badNonce")
    /\ UNCHANGED <<newOrders, csrOrders, certOrders, history>>

\* a response with a success status: the call returns it to the operation
Answered(p, op, url, rn) ==
    /\ task[p].op = op
    /\ task[p].url = url
    /\ Exchange(p, rn)

-----------------------------------------------------------------------------
(* Directory: register_account, load_account, upsert_account *)

\* the operation fails before it sends anything
FailEarly(op, why) ==
    /\ ret' = [Immediate(op, 0, "none", "err") EXCEPT !.why = why]
    /\ UNCHANGED <<pool, nonceUses, transports, newOrders,
                   csrOrders, certOrders, history, task>>

\* the keys some transport was made with
KeysInUse == {transports[t].key : t \in DOMAIN transports}

\* upsert_account up to its first await: a new Transport over the
\* directory's pool, and the newAccount call in JWK form
upsert_account(p, acme_key) ==
    \E t \in DOMAIN transports :
        /\ transports[t] = NoTransport
        /\ \A u \in DOMAIN transports : transports[u] = NoTransport => t <= u
        /\ transports' = [transports EXCEPT ![t] =
               [key |-> acme_key, key_id |-> "none", account |-> FALSE]]
        /\ task' = [task EXCEPT ![p] = Calling("upsert", t, 0, "newAccount", "jwk")]
        /\ ret' = NoReturn
        /\ UNCHANGED <<pool, nonceUses, newOrders, csrOrders,
                       certOrders, history>>

\* register_account: a fresh account key (its generation may fail)
register_account(p, acme_key, key_ok) ==
    /\ Free(p)
    /\ acme_key \notin KeysInUse
    /\ IF key_ok THEN upsert_account(p, acme_key) ELSE FailEarly("upsert", "key")

\* load_account: the account key parsed from the caller's PEM (which may
\* not parse)
load_account(p, acme_key, pem_ok) ==
    /\ Free(p)
    /\ IF pem_ok THEN upsert_account(p, acme_key) ELSE FailEarly("upsert", "key")

\* upsert_account: the Location header is required and the body must decode
upsert_outcome_any_header(location, body_ok) == IF body_ok THEN "ok" ELSE "err"
upsert_outcome(location, body_ok) ==
    IF location = "none" \/ ~body_ok THEN "err" ELSE "ok"

\* upsert_account: the transport the Account is built over, its key id set
\* to the server's
account_transport_without_kid(tr, kid) == [tr EXCEPT !.account = TRUE]
account_transport(tr, kid) == [tr EXCEPT !.key_id = kid, !.account = TRUE]

\* upsert_account after the newAccount call returned a response. location is
\* "none" when the header is absent; the server names the account of the key
\* that signed the request.
upsert_account_answered_sets_kid_first(p, rn, location, body_ok) ==
    /\ Answered(p, "upsert", "newAccount", rn)
    /\ location \in {"none", transports[task[p].tr].key}
    /\ task' = [task EXCEPT ![p] = IdleTask]
    /\ ret' = Ret([task[p] EXCEPT !.seen = location],
                  upsert_outcome(location, body_ok), "none")
    /\ transports' = [transports EXCEPT ![task[p].tr] =
           IF upsert_outcome(location, body_ok) = "ok"
           THEN account_transport(@, location)
           ELSE IF location # "none"
           THEN [@ EXCEPT !.key_id = location]
           ELSE NoTransport]
    /\ UNCHANGED <<newOrders, csrOrders, certOrders, history>>
upsert_account_answered(p, rn, location, body_ok) ==
    /\ Answered(p, "upsert", "newAccount", rn)
    /\ location \in {"none", transports[task[p].tr].key}
    /\ task' = [task EXCEPT ![p] = IdleTask]
    /\ ret' = Ret([task[p] EXCEPT !.seen = location],
                  upsert_outcome(location, body_ok), "none")
    /\ transports' = [transports EXCEPT ![task[p].tr] =
           IF upsert_outcome(location, body_ok) = "ok"
           THEN account_transport(@, location)
           ELSE NoTransport]
    /\ UNCHANGED <<newOrders, csrOrders, certOrders, history>>

-----------------------------------------------------------------------------
(* Account::new_order *)

\* POST newOrder on the account's transport
new_order(p, t) ==
    /\ Free(p)
    /\ transports[t].account
    /\ Len(newOrders) < MaxOrders
    /\ task' = [task EXCEPT ![p] = Calling("new_order", t, 0, "newOrder", "kid")]
    /\ ret' = NoReturn
    /\ UNCHANGED <<pool, nonceUses, transports, newOrders,
                   csrOrders, certOrders, history>>

\* the response's Location header is the order URL, its body the order
new_order_answered(p, rn, has_location, body, authorizations) ==
    /\ Answered(p, "new_order", "newOrder", rn)
    /\ task' = [task EXCEPT ![p] = IdleTask]
    /\ IF ~has_location \/ body \notin Status
       THEN /\ ret' = Ret(task[p], "err", "decode")
            /\ UNCHANGED <<newOrders, history>>
       ELSE /\ Len(newOrders) < MaxOrders
            /\ newOrders' = Append(newOrders,
                   [status |-> body, tr |-> task[p].tr,
                    url |-> Len(newOrders) + 1,
                    authorizations |-> authorizations])
            /\ history' = Append(history, [yielded |-> 0, posts |-> 0, keys |-> {}])
            /\ ret' = Ret([task[p] EXCEPT !.obj = Len(newOrders) + 1,
                                          !.seen = body], "ok", "none")
    /\ UNCHANGED <<transports, csrOrders, certOrders>>

-----------------------------------------------------------------------------
(* NewOrder *)

\* is_validated: reads the cached order, sends nothing
NewOrder_is_validated_caches(p, o) ==
    /\ Free(p)
    /\ ret' = Immediate("is_validated", o, newOrders[o].status,
                        IF is_validated(newOrders[o]) THEN "true" ELSE "false")
    /\ newOrders' = IF is_validated(newOrders[o])
                    THEN [newOrders EXCEPT ![o].status = "valid"]
                    ELSE newOrders
    /\ UNCHANGED <<pool, nonceUses, transports,
                   csrOrders, certOrders, history, task>>
NewOrder_is_validated(p, o) ==
    /\ Free(p)
    /\ ret' = Immediate("is_validated", o, newOrders[o].status,
                        IF is_validated(newOrders[o]) THEN "true" ELSE "false")
    /\ UNCHANGED <<pool, nonceUses, transports, newOrders,
                   csrOrders, certOrders, history, task>>

\* the CsrOrder confirm_validations builds: a clone of the cached order and
\* of its URL, over the same account
csr_order_of(o) == [order |-> o, status |-> newOrders[o].status]

\* confirm_validations: Some(CsrOrder) when is_validated, else None. It
\* borrows self: the NewOrder stays with the caller.
confirm_validations(p, o) ==
    /\ Free(p)
    /\ ret' = Immediate("confirm_validations", o, newOrders[o].status,
                        IF is_validated(newOrders[o]) THEN "some" ELSE "nothing")
    /\ IF is_validated(newOrders[o])
       THEN /\ history[o].yielded < MaxCsr
            /\ csrOrders' = csrOrders (+) SetToBag({csr_order_of(o)})
            /\ history' = [history EXCEPT ![o].yielded = @ + 1]
       ELSE UNCHANGED <<csrOrders, history>>
    /\ UNCHANGED <<pool, nonceUses, transports, newOrders,
                   certOrders, task>>

\* refresh up to its await: refresh_order's POST-as-GET of the order URL
refresh(p, o) ==
    /\ Free(p)
    /\ task' = [task EXCEPT ![p] =
                    Calling("refresh", newOrders[o].tr, o, "order", "kid")]
    /\ ret' = NoReturn
    /\ UNCHANGED <<pool, nonceUses, transports, newOrders,
                   csrOrders, certOrders, history>>

\* refresh after the call returned a response: the body is decoded and the
\* cached order replaced
refresh_answered_clears_on_error(p, rn, body, authorizations) ==
    /\ Answered(p, "refresh", "order", rn)
    /\ task' = [task EXCEPT ![p] = IdleTask]
    /\ IF body \notin Status
       THEN /\ ret' = Ret(task[p], "err", "decode")
            /\ newOrders' = [newOrders EXCEPT ![task[p].obj].status = "pending",
                                              ![task[p].obj].authorizations = <<>>]
       ELSE /\ newOrders' = [newOrders EXCEPT ![task[p].obj] =
                                 [status |-> body, tr |-> task[p].tr,
                                  url |-> task[p].obj,
                                  authorizations |-> authorizations]]
            /\ ret' = Ret([task[p] EXCEPT !.seen = body], "ok", "none")
    /\ UNCHANGED <<transports, csrOrders, certOrders, history>>
refresh_answered(p, rn, body, authorizations) ==
    /\ Answered(p, "refresh", "order", rn)
    /\ task' = [task EXCEPT ![p] = IdleTask]
    /\ IF body \notin Status
       THEN /\ ret' = Ret(task[p], "err", "decode")
            /\ UNCHANGED newOrders
       ELSE /\ newOrders' = [newOrders EXCEPT ![task[p].obj] =
                                 [status |-> body, tr |-> task[p].tr,
                                  url |-> task[p].obj,
                                  authorizations |-> authorizations]]
            /\ ret' = Ret([task[p] EXCEPT !.seen = body], "ok", "none")
    /\ UNCHANGED <<transports, csrOrders, certOrders, history>>

\* Auth::new(inner, api_auth, auth_url): the facade over one authorization
Auth_new(auth_url) == [url |-> auth_url]

\* authorizations: result.push(auth)
result_push_front(result, auth) == <<auth>> \o result
result_push(result, auth) == Append(result, auth)

\* authorizations up to its first await: with no authorization URLs it
\* returns the empty list, else it POSTs-as-GET the first URL
authorizations(p, o) ==
    /\ Free(p)
    /\ IF newOrders[o].authorizations = <<>>
       THEN /\ ret' = Immediate("authorizations", o, "none", "ok")
            /\ UNCHANGED task
       ELSE /\ task' = [task EXCEPT ![p] =
                  [Calling("authorizations", newOrders[o].tr, o,
                           Head(newOrders[o].authorizations), "kid")
                      EXCEPT !.asked = <<Head(newOrders[o].authorizations)>>]]
            /\ ret' = NoReturn
    /\ UNCHANGED <<pool, nonceUses, transports, newOrders,
                   csrOrders, certOrders, history>>

\* authorizations after a call returned a response: the body is decoded
\* (which may fail) and wrapped, and the loop goes on to the next URL or
\* returns the list
authorizations_answered(p, rn, body_ok) ==
    /\ task[p].op = "authorizations"
    /\ Exchange(p, rn)
    /\ IF ~body_ok
       THEN /\ task' = [task EXCEPT ![p] = IdleTask]
            /\ ret' = Ret(task[p], "err", "decode")
       ELSE LET result == result_push(task[p].got, Auth_new(task[p].url))
                urls == newOrders[task[p].obj].authorizations
                next == Len(task[p].asked) + 1
            IN  IF next <= Len(urls)
                THEN /\ task' = [task EXCEPT ![p] =
                           [@ EXCEPT !.pc = "nonce", !.nonce = 0, !.tries = 0,
                                     !.calls = @ + 1, !.url = urls[next],
                                     !.asked = Append(@, urls[next]),
                                     !.got = result]]
                     /\ ret' = NoReturn
                ELSE /\ task' = [task EXCEPT ![p] = IdleTask]
                     /\ ret' = [Ret(task[p], "ok", "none") EXCEPT !.auths = result]
    /\ UNCHANGED <<transports, newOrders, csrOrders, certOrders, history>>

-----------------------------------------------------------------------------
(* CsrOrder *)

\* the CsrOrder facades after finalize on cs: it takes self, so the CsrOrder
\* is gone from the caller
finalize_leaves_borrowed(cs) == csrOrders
finalize_leaves(cs) == csrOrders (-) SetToBag({cs})

\* finalize_pkey up to its first await: the CSR is built (which may fail)
\* and POSTed to the finalize URL
finalize_pkey(p, cs, private_key, delay, csr_ok) ==
    IF csr_ok
    THEN /\ history' = [history EXCEPT ![cs.order].posts = @ + 1,
                                        ![cs.order].keys = @ \cup {private_key}]
         /\ task' = [task EXCEPT ![p] =
               [Calling("finalize", newOrders[cs.order].tr, cs.order,
                        "finalize", "kid") EXCEPT !.delay = delay,
                                                  !.pkey = private_key]]
         /\ ret' = NoReturn
    ELSE /\ ret' = [Immediate("finalize", cs.order, "none", "err")
                       EXCEPT !.why = "csr"]
         /\ UNCHANGED <<history, task>>

\* finalize: the private key is parsed from PEM (which may fail), then
\* finalize_pkey
finalize(p, cs, private_key, delay, pem_ok, csr_ok) ==
    /\ Free(p)
    /\ BagIn(cs, csrOrders)
    /\ csrOrders' = finalize_leaves(cs)
    /\ finalize_pkey(p, cs, private_key, delay, pem_ok /\ csr_ok)
    /\ UNCHANGED <<pool, nonceUses, transports, newOrders, certOrders>>

\* the finalize POST was accepted: wait_for_order_status makes its first poll
finalize_answered_sleeps_first(p, rn) ==
    /\ Answered(p, "finalize", "finalize", rn)
    /\ task' = [task EXCEPT ![p] =
                    [@ EXCEPT !.pc = "sleep", !.url = "order", !.nonce = 0,
                              !.tries = 0, !.slept = task[p].delay,
                              !.sleeps = @ + 1]]
    /\ ret' = NoReturn
    /\ UNCHANGED <<transports, newOrders, csrOrders, certOrders, history>>
finalize_answered_reposts(p, rn) ==
    /\ Answered(p, "finalize", "finalize", rn)
    /\ task' = [task EXCEPT ![p] =
                    [@ EXCEPT !.pc = "nonce", !.nonce = 0, !.tries = 0,
                              !.calls = @ + 1]]
    /\ ret' = NoReturn
    /\ UNCHANGED <<transports, newOrders, csrOrders, certOrders, history>>
finalize_answered(p, rn) ==
    /\ Answered(p, "finalize", "finalize", rn)
    /\ task' = [task EXCEPT ![p] =
                    [@ EXCEPT !.pc = "nonce", !.url = "order", !.nonce = 0,
                              !.tries = 0, !.calls = @ + 1]]
    /\ ret' = NoReturn
    /\ UNCHANGED <<transports, newOrders, csrOrders, certOrders, history>>

\* the first status a poll observed that is not processing
FirstSettled(seen, body) ==
    IF seen = "none" /\ body # "processing" THEN body ELSE seen

\* the polls of the order URL wait_for_order_status has begun
Polls(tk) == tk.calls - 1

\* wait_for_order_status after a poll returned a response, and the end of
\* finalize_pkey when the loop returns. retry_after is the response's
\* Retry-After header (0: absent); certificate tells whether the order of
\* the body has a certificate URL. The server leaves processing within
\* MaxPolls polls.
poll_answered(p, rn, body, retry_after, certificate) ==
    /\ Answered(p, "finalize", "order", rn)
    /\ body = "processing" => Polls(task[p]) < MaxPolls
    /\ UNCHANGED <<transports, newOrders, csrOrders, history>>
    /\ IF body \notin Status
       THEN /\ task' = [task EXCEPT ![p] = IdleTask]
            /\ ret' = Ret(task[p], "err", "decode")
            /\ UNCHANGED certOrders
       ELSE IF poll_again([status |-> body])
       THEN /\ task' = [task EXCEPT ![p] =
                  [@ EXCEPT !.pc = "sleep", !.nonce = 0, !.ra = retry_after,
                            !.slept = poll_sleep(task[p].delay, retry_after),
                            !.sleeps = @ + 1,
                            !.seen = FirstSettled(task[p].seen, body)]]
            /\ ret' = NoReturn
            /\ UNCHANGED certOrders
       ELSE /\ task' = [task EXCEPT ![p] = IdleTask]
            /\ ret' = Ret([task[p] EXCEPT !.seen = FirstSettled(@, body)],
                          finalize_result([status |-> body]),
                          IF finalize_result([status |-> body]) = "ok"
                          THEN "none" ELSE "status")
            /\ certOrders' =
                  IF finalize_result([status |-> body]) = "ok"
                  THEN certOrders (+)
                          SetToBag({[order |-> task[p].obj, status |-> body,
                                     certificate |-> certificate,
                                     private_key |-> task[p].pkey]})
                  ELSE certOrders

\* the poll sleep is over: the loop polls again
poll_wake(p) ==
    /\ task[p].pc = "sleep"
    /\ task' = [task EXCEPT ![p] =
                    [@ EXCEPT !.pc = "nonce", !.tries = 0, !.ra = 0, !.slept = 0,
                              !.calls = @ + 1]]
    /\ ret' = NoReturn
    /\ UNCHANGED <<pool, nonceUses, transports, newOrders,
                   csrOrders, certOrders, history>>

-----------------------------------------------------------------------------
(* CertOrder *)

\* the bodies the server answers a certificate download with
CertBodies == {"CERT HERE", "CERT OTHER"}

\* PKey::private_key_to_pem_pkcs8: the PEM text of a private key
private_key_to_pem_pkcs8(private_key) ==
    CASE private_key = "p1" -> "PEM p1"
      [] private_key = "p2" -> "PEM p2"
      [] OTHER -> ""

\* Certificate::new(private_key, certificate)
Certificate_new_swapped(private_key, certificate) ==
    [private_key |-> certificate, certificate |-> private_key]
Certificate_new(private_key, certificate) ==
    [private_key |-> private_key, certificate |-> certificate]

\* download_cert up to its await: it takes self; without a certificate URL
\* it fails at once, else it POSTs-as-GET the URL
download_cert(p, c) ==
    /\ Free(p)
    /\ BagIn(c, certOrders)
    /\ certOrders' = certOrders (-) SetToBag({c})
    /\ IF c.certificate
       THEN /\ task' = [task EXCEPT ![p] =
                  [Calling("download_cert", newOrders[c.order].tr, c.order,
                           "certificate", "kid") EXCEPT !.pkey = c.private_key]]
            /\ ret' = NoReturn
       ELSE /\ ret' = [Immediate("download_cert", c.order, "none", "err")
                          EXCEPT !.why = "certificate url"]
            /\ UNCHANGED task
    /\ UNCHANGED <<pool, nonceUses, transports, newOrders, csrOrders, history>>

\* download_cert after the call returned a response: the key is written as
\* PEM (which may fail) and packaged with the body
download_cert_answered(p, rn, body, pem_ok) ==
    /\ Answered(p, "download_cert", "certificate", rn)
    /\ task' = [task EXCEPT ![p] = IdleTask]
    /\ ret' = IF pem_ok
              THEN LET cert == Certificate_new(
                                   private_key_to_pem_pkcs8(task[p].pkey), body)
                   IN  [Ret(task[p], "ok", "none") EXCEPT
                            !.seen = cert.certificate, !.key = cert.private_key]
              ELSE Ret(task[p], "err", "pem")
    /\ UNCHANGED <<transports, newOrders, csrOrders, certOrders, history>>

-----------------------------------------------------------------------------
(* The specifications *)

\* one caller that awaits each operation before it starts the next
Next ==
    \/ nonce_fetch("t1")
    \/ call_neterr("t1")
    \/ \E rn \in BOOLEAN : call_problem("t1", rn)
    \/ \E rn \in BOOLEAN : call_bad_nonce("t1", rn)
    \/ \E k \in Keys, ok \in BOOLEAN : register_account("t1", k, ok)
    \/ \E k \in Keys, ok \in BOOLEAN : load_account("t1", k, ok)
    \/ \E rn, body_ok \in BOOLEAN, loc \in Keys \cup {"none"} :
           upsert_account_answered("t1", rn, loc, body_ok)
    \/ \E t \in DOMAIN transports : new_order("t1", t)
    \/ \E rn, loc \in BOOLEAN, body \in Bodies :
           new_order_answered("t1", rn, loc, body, <<"a1">>)
    \/ \E o \in DOMAIN newOrders : NewOrder_is_validated("t1", o)
    \/ \E o \in DOMAIN newOrders : confirm_validations("t1", o)
    \/ \E o \in DOMAIN newOrders : refresh("t1", o)
    \/ \E rn \in BOOLEAN, body \in Bodies : refresh_answered("t1", rn, body, <<"a1">>)
    \/ \E cs \in BagToSet(csrOrders), d \in 1..MaxDelay, pem_ok, csr_ok \in BOOLEAN :
           finalize("t1", cs, "p1", d, pem_ok, csr_ok)
    \/ \E rn \in BOOLEAN : finalize_answered("t1", rn)
    \/ \E rn \in BOOLEAN, body \in Bodies, ra \in 0..MaxRetryAfter :
           poll_answered("t1", rn, body, ra, TRUE)
    \/ poll_wake("t1")

Spec == Init /\ [][Next]_vars

\* concurrent callers of the operations that share the directory's nonce
\* pool: futures polled together, each inside its own transport call
NextConc ==
    \E p \in Tasks :
        \/ nonce_fetch(p)
        \/ call_neterr(p)
        \/ \E rn \in BOOLEAN : call_problem(p, rn)
        \/ \E rn \in BOOLEAN : call_bad_nonce(p, rn)
        \/ \E k \in Keys, ok \in BOOLEAN : register_account(p, k, ok)
        \/ \E k \in Keys, ok \in BOOLEAN : load_account(p, k, ok)
        \/ \E rn, body_ok \in BOOLEAN, loc \in Keys \cup {"none"} :
               upsert_account_answered(p, rn, loc, body_ok)
        \/ \E t \in DOMAIN transports : new_order(p, t)
        \/ \E rn, loc \in BOOLEAN, body \in Bodies :
               new_order_answered(p, rn, loc, body, <<"a1">>)

SpecConc == Init /\ [][NextConc]_vars

\* one caller taking one account's orders from new_order to the downloaded
\* certificate
NextIssue ==
    \/ nonce_fetch("t1")
    \/ call_neterr("t1")
    \/ \E rn \in BOOLEAN : call_problem("t1", rn)
    \/ \E rn \in BOOLEAN : call_bad_nonce("t1", rn)
    \/ /\ KeysInUse = {"none"}
       /\ register_account("t1", "k1", TRUE)
    \/ \E rn \in BOOLEAN : upsert_account_answered("t1", rn, "k1", TRUE)
    \/ \E t \in DOMAIN transports : new_order("t1", t)
    \/ \E rn \in BOOLEAN, body \in Status :
           new_order_answered("t1", rn, TRUE, body, <<"a1">>)
    \/ \E o \in DOMAIN newOrders : confirm_validations("t1", o)
    \/ \E cs \in BagToSet(csrOrders), k \in PKeys, d \in 1..MaxDelay,
          csr_ok \in BOOLEAN :
           finalize("t1", cs, k, d, TRUE, csr_ok)
    \/ \E rn \in BOOLEAN : finalize_answered("t1", rn)
    \/ \E rn, certificate \in BOOLEAN, body \in Bodies, ra \in 0..MaxRetryAfter :
           poll_answered("t1", rn, body, ra, certificate)
    \/ poll_wake("t1")
    \/ \E c \in BagToSet(certOrders) : download_cert("t1", c)
    \/ \E rn, pem_ok \in BOOLEAN, body \in CertBodies :
           download_cert_answered("t1", rn, body, pem_ok)

SpecIssue == Init /\ [][NextIssue]_vars

\* one caller working on the NewOrders of one account: refresh,
\* authorizations, is_validated, confirm_validations
NextNewOrder ==
    \/ nonce_fetch("t1")
    \/ call_neterr("t1")
    \/ \E rn \in BOOLEAN : call_problem("t1", rn)
    \/ \E rn \in BOOLEAN : call_bad_nonce("t1", rn)
    \/ /\ KeysInUse = {"none"}
       /\ register_account("t1", "k1", TRUE)
    \/ \E rn \in BOOLEAN : upsert_account_answered("t1", rn, "k1", TRUE)
    \/ \E t \in DOMAIN transports : new_order("t1", t)
    \/ \E rn \in BOOLEAN, body \in Status, urls \in AuthLists :
           new_order_answered("t1", rn, TRUE, body, urls)
    \/ \E o \in DOMAIN newOrders : NewOrder_is_validated("t1", o)
    \/ \E o \in DOMAIN newOrders : confirm_validations("t1", o)
    \/ \E o \in DOMAIN newOrders : refresh("t1", o)
    \/ \E rn \in BOOLEAN, body \in Bodies, urls \in AuthLists :
           refresh_answered("t1", rn, body, urls)
    \/ \E o \in DOMAIN newOrders : authorizations("t1", o)
    \/ \E rn, body_ok \in BOOLEAN : authorizations_answered("t1", rn, body_ok)

SpecNewOrder == Init /\ [][NextNewOrder]_vars

\* the same caller on a runtime that keeps polling its future: every
\* request returns and every sleep ends
SpecIssueFair == SpecIssue /\ WF_vars(NextIssue)

-----------------------------------------------------------------------------
(* The order facades: NewOrder -> CsrOrder -> CertOrder *)

\* the CsrOrder facades of order o the caller holds
CsrHeld(o) ==
    LET held == {cs \in BagToSet(csrOrders) : cs.order = o}
        RECURSIVE Sum(_)
        Sum(S) == IF S = {} THEN 0
                  ELSE LET cs == CHOOSE x \in S : TRUE
                       IN  CopiesIn(cs, csrOrders) + Sum(S \ {cs})
    IN  Sum(held)

\* C1 as stated: a NewOrder yields at most one CsrOrder, and the finalize
\* POST is sent at most once per order created by new_order.
C1_OneCsrOrderPerNewOrder ==
    \A o \in DOMAIN history :
        /\ history[o].yielded <= 1
        /\ history[o].posts <= 1

\* C1 as amended: confirm_validations borrows the NewOrder, which stays
\* usable and may yield further CsrOrders; finalize consumes its CsrOrder,
\* so the finalize POSTs sent for an order plus the CsrOrders of it still
\* held never exceed the CsrOrders yielded from it.
C1_FinalizeConsumesCsrOrder ==
    \A o \in DOMAIN history :
        /\ o \in DOMAIN newOrders
        /\ history[o].posts + CsrHeld(o) <= history[o].yielded

\* C1 witness: one NewOrder yielded two CsrOrders and both were finalized
C1_TwoFinalizePosts ==
    \E o \in DOMAIN history :
        /\ history[o].yielded = 2
        /\ history[o].posts = 2

\* C2: is_validated returns true iff the cached status is ready or valid,
\* and confirm_validations yields a CsrOrder (of the cached order) iff
\* is_validated is true, else nothing.
C2_ValidatedIffReadyOrValid ==
    /\ ret.op = "is_validated" =>
          /\ ret.res \in {"true", "false"}
          /\ ret.res = "true" <=> ret.seen \in {"ready", "valid"}
    /\ ret.op = "confirm_validations" =>
          /\ ret.res \in {"some", "nothing"}
          /\ ret.res = "some" <=> ret.seen \in {"ready", "valid"}
          /\ ret.res = "some" =>
                BagIn([order |-> ret.obj, status |-> ret.seen], csrOrders)

\* C2 witness: confirm_validations yielded a CsrOrder from a valid order
C2_YieldedFromValid ==
    /\ ret.op = "confirm_validations"
    /\ ret.res = "some"
    /\ ret.seen = "valid"

\* C3 as stated: every CsrOrder wraps an order whose cached status is ready.
C3_CsrOrderIsReady ==
    \A cs \in BagToSet(csrOrders) : cs.status = "ready"

\* C3 as amended: every CsrOrder wraps an order whose cached status is ready
\* or valid, the two statuses is_validated accepts.
C3_CsrOrderIsReadyOrValid ==
    \A cs \in BagToSet(csrOrders) : cs.status \in {"ready", "valid"}

\* C3 witness: a CsrOrder over an order that is already valid
C3_CsrOrderOverValid ==
    \E cs \in BagToSet(csrOrders) : cs.status = "valid"

\* C4: every CertOrder finalize returned holds an order whose status, the
\* last one polled, is valid.
C4_CertOrderIsValid ==
    /\ \A c \in BagToSet(certOrders) : c.status = "valid"
    /\ (ret.op = "finalize" /\ ret.res = "ok") =>
          \E c \in BagToSet(certOrders) : c.order = ret.obj

\* C4 witness: finalize returned a CertOrder
C4_CertOrderReturned ==
    /\ ret.op = "finalize"
    /\ ret.res = "ok"
    /\ certOrders # EmptyBag

\* C5: finalize succeeds iff the first status a poll observed that is not
\* processing is valid; on any other such status it fails with the protocol
\* error and returns no CertOrder.
C5_FinalizeIffFirstSettledValid ==
    ret.op = "finalize" =>
        /\ ret.res = "ok" <=> ret.seen = "valid"
        /\ ret.seen \in {"pending", "ready", "invalid"} =>
              /\ ret.res = "err"
              /\ ret.why = "status"

\* C5 witness: the polling ended on an invalid order and finalize failed
C5_FinalizeFailedOnInvalid ==
    /\ ret.op = "finalize"
    /\ ret.seen = "invalid"
    /\ ret.res = "err"

-----------------------------------------------------------------------------
(* Accounts and the signed requests *)

\* the tasks whose signing attempt holds a nonce and is about to POST
Signing == {p \in Tasks : task[p].pc = "post"}

\* C6: every signed request on behalf of an Account is in KID form, carrying
\* the account's key id; only the newAccount request is in JWK form; and the
\* key id of the Location header is on the transport of every Account
\* handed to the caller.
C6_AccountRequestsUseKid ==
    /\ \A p \in Signing :
          /\ Request(p).form = "jwk" => Request(p).url = "newAccount"
          /\ Request(p).url # "newAccount" =>
                /\ Request(p).form = "kid"
                /\ Request(p).kid # "none"
                /\ Request(p).kid = transports[Request(p).tr].key
          /\ transports[Request(p).tr].account => Request(p).form = "kid"
    /\ \A t \in DOMAIN transports :
          transports[t].account =>
              /\ transports[t].key_id # "none"
              /\ transports[t].key_id = transports[t].key

\* C6 witness: a request in KID form is about to be sent for an Account
C6_KidRequest ==
    \E p \in Signing :
        /\ Request(p).url = "newOrder"
        /\ Request(p).form = "kid"
        /\ transports[Request(p).tr].account

\* C7: an Account is returned only if the newAccount response carried a
\* Location header; when it is absent the operation fails, the key id is
\* never set and no Account is produced (the transport of a failed or
\* running upsert_account has no key id, and is gone once it failed).
C7_AccountNeedsLocation ==
    /\ ret.op = "upsert" =>
          /\ ret.res = "ok" => ret.seen # "none"
          /\ ret.seen = "none" => ret.res = "err"
    /\ \A t \in DOMAIN transports :
          /\ transports[t].key_id # "none" <=> transports[t].account
          /\ (transports[t] # NoTransport /\ ~transports[t].account) =>
                \E p \in Tasks : task[p].op = "upsert" /\ task[p].tr = t

\* C7 witness: the newAccount call was answered without a Location header
\* and upsert_account failed, leaving no transport behind
C7_FailedWithoutLocation ==
    /\ ret.op = "upsert"
    /\ ret.why = "none"
    /\ ret.seen = "none"
    /\ ret.res = "err"
    /\ \A t \in DOMAIN transports : transports[t] = NoTransport

\* C8: the nonce of every signed request came from the pool and is used by
\* one signing attempt only: no nonce was sent twice, a nonce the client
\* still holds was never sent, the attempts of concurrent requests hold
\* different nonces, and none of them is still buffered in the pool.
C8_NonceUsedOnce ==
    /\ \A n \in DOMAIN nonceUses : nonceUses[n] <= 1
    /\ \A n \in Outstanding \ {0} : nonceUses[n] = 0
    /\ \A p \in Signing :
          /\ task[p].nonce \in 1..MaxNonce
          /\ \A q \in Signing \ {p} : task[q].nonce # task[p].nonce
          /\ \A i \in DOMAIN pool : pool[i] # task[p].nonce
    /\ \A i, j \in DOMAIN pool : i # j => pool[i] # pool[j]

\* C8 witness: two concurrent requests of different Accounts of the same
\* Directory each hold a nonce, one of them on a retry after badNonce
C8_ConcurrentSigning ==
    /\ Signing = Tasks
    /\ task["t1"].tr # task["t2"].tr
    /\ transports[task["t1"].tr].account
    /\ transports[task["t2"].tr].account
    /\ task["t1"].tries > 0

\* C9: a badNonce answer is retried with a newly fetched nonce, at most
\* RetryLimit times per call; the call fails with badNonce only once the
\* RetryLimit retries are used up, and a call that succeeds after a retry
\* returns success to the caller.
C9_BadNonceRetriesBounded ==
    /\ \A p \in Tasks :
          /\ task[p].tries <= RetryLimit
          /\ (task[p].tries > 0 /\ task[p].pc = "post") =>
                task[p].nonce \in 1..MaxNonce
    /\ ret.tries <= RetryLimit
    /\ ret.why = "badNonce" =>
          /\ ret.res = "err"
          /\ ret.tries = RetryLimit

\* C9 witness: an operation whose call was retried after badNonce returned
\* success
C9_SuccessAfterRetry ==
    /\ ret.op = "new_order"
    /\ ret.res = "ok"
    /\ ret.tries >= 1

\* C10 as stated: when the poll response carries Retry-After (ra > 0), the
\* wait before the next poll is the maximum of the delay and Retry-After.
C10_WaitIsMaxOfDelayAndRetryAfter ==
    \A p \in Tasks :
        (task[p].pc = "sleep" /\ task[p].ra > 0) =>
            task[p].slept = IF task[p].ra > task[p].delay
                            THEN task[p].ra ELSE task[p].delay

\* C10 as amended: the wait before the next poll is the caller's delay,
\* whether or not the poll response carries a Retry-After header.
C10_WaitIsCallerDelay ==
    \A p \in Tasks :
        task[p].pc = "sleep" => task[p].slept = task[p].delay

\* C10 witness: a poll found the order processing with a Retry-After longer
\* than the caller's delay, and the loop sleeps
C10_SleepWithLongerRetryAfter ==
    \E p \in Tasks :
        /\ task[p].pc = "sleep"
        /\ task[p].ra > task[p].delay

-----------------------------------------------------------------------------
(* CertOrder::download_cert *)

\* the PEM texts of the keys given to the finalize calls of order o
PemsGiven(o) == {private_key_to_pem_pkcs8(k) : k \in history[o].keys}

\* C11: download_cert on an order without certificate URL fails with the
\* protocol error and makes no request; with the URL it makes exactly one
\* call and returns a Certificate whose text is a response body and whose
\* private key is the non-empty PEM of a key given to finalize.
C11_DownloadCert ==
    /\ \A p \in Tasks :
          task[p].op = "download_cert" =>
              /\ task[p].url = "certificate"
              /\ task[p].calls = 1
    /\ ret.op = "download_cert" =>
          /\ ret.calls = 0 <=> ret.why = "certificate url"
          /\ ret.calls = 0 => ret.res = "err"
          /\ ret.calls <= 1
          /\ ret.res = "ok" =>
                /\ ret.calls = 1
                /\ ret.seen \in CertBodies
                /\ ret.key # ""
                /\ ret.key \in PemsGiven(ret.obj)

\* C11 witness: a certificate was downloaded for an order finalized with the
\* key p2 only
C11_Downloaded ==
    /\ ret.op = "download_cert"
    /\ ret.res = "ok"
    /\ ret.seen = "CERT HERE"
    /\ history[ret.obj].keys = {"p2"}

-----------------------------------------------------------------------------
(* Directory::upsert_account, called again with a key *)

\* the Accounts handed to the caller that were made with key k
AccountsOf(k) ==
    {t \in DOMAIN transports : transports[t].account /\ transports[t].key = k}

\* C12: against a server that names one account URL per key, the Accounts
\* made with the same account key have the same key id, the one the latest
\* newAccount response for that key carried.
C12_SameKeySameKid ==
    /\ \A t, u \in DOMAIN transports :
          (/\ transports[t].account
           /\ transports[u].account
           /\ transports[t].key = transports[u].key) =>
              transports[t].key_id = transports[u].key_id
    /\ (ret.op = "upsert" /\ ret.res = "ok") =>
          /\ AccountsOf(ret.seen) # {}
          /\ \A t \in AccountsOf(ret.seen) : transports[t].key_id = ret.seen

\* C12 witness: load_account returned a second Account for the same key
C12_TwoAccountsOfOneKey ==
    /\ ret.op = "upsert"
    /\ ret.res = "ok"
    /\ Cardinality(AccountsOf(ret.seen)) = 2

-----------------------------------------------------------------------------
(* CsrOrder::finalize_pkey: the finalize POST and the polls *)

\* the errors a transport call ends with
CallErrors == {"head", "neterr", "problem", "badNonce"}

\* C13: an execution of finalize_pkey makes the finalize POST as its first
\* and only call to the finalize URL, before any poll of the order URL; when
\* the CSR cannot be built it makes no call at all; when the finalize POST
\* fails it makes no poll and returns the error.
C13_FinalizePostOnceBeforePolls ==
    /\ \A p \in Tasks :
          task[p].op = "finalize" =>
              /\ task[p].url \in {"finalize", "order"}
              /\ task[p].url = "finalize" <=> task[p].calls = 1
              /\ task[p].url = "order" <=> task[p].calls >= 2
    /\ ret.op = "finalize" =>
          /\ ret.calls = 0 <=> ret.why = "csr"
          /\ ret.calls = 0 => ret.res = "err"
          /\ ret.calls = 1 => (ret.res = "err" /\ ret.why \in CallErrors)
          /\ ret.res = "ok" => ret.calls >= 2

\* C13 witness: the finalize POST was answered with a problem and
\* finalize_pkey returned after that one call
C13_FinalizePostFailed ==
    /\ ret.op = "finalize"
    /\ ret.why = "problem"
    /\ ret.calls = 1

\* C14: the polling stops at the first status observed that is not
\* processing: finalize is never running after such a status was observed,
\* it returns with that poll, having slept only between the polls before it.
C14_PollingStopsAtFirstSettled ==
    /\ \A p \in Tasks :
          task[p].op = "finalize" => task[p].seen = "none"
    /\ (ret.op = "finalize" /\ ret.seen # "none") =>
          /\ ret.seen \in Status \ {"processing"}
          /\ \A p \in Tasks : task[p].op # "finalize"
          /\ ret.sleeps = Polls(ret) - 1

\* C14 witness: a poll observed invalid after two polls that observed
\* processing, and finalize returned
C14_StoppedOnInvalid ==
    /\ ret.op = "finalize"
    /\ ret.seen = "invalid"
    /\ Polls(ret) = 3

\* some caller is inside finalize
FinalizeRunning == \E p \in Tasks : task[p].op = "finalize"

\* finalize returned from its polling either on a status a poll observed
\* that is not processing, or on the error of a call or of decoding
ReturnedFromPolling ==
    (ret.op = "finalize" /\ Polls(ret) >= 1) =>
        \/ ret.seen \in Status \ {"processing"}
        \/ ret.why \in CallErrors \cup {"decode"}

\* C15: the polling loop counts no attempts: after any number of processing
\* responses it sleeps and polls again, and finalize returns from the loop
\* only on a status that is not processing or on a failed request; when
\* every request returns and the server reports such a status or fails in
\* the end, finalize returns.
C15_PollsUntilSettled ==
    /\ [](ReturnedFromPolling)
    /\ [](\A p \in Tasks :
             (task[p].op = "finalize" /\ task[p].pc = "sleep") =>
                 task[p].sleeps = Polls(task[p]))
    /\ FinalizeRunning ~> ~FinalizeRunning

\* C15 witness: every poll so far, one short of MaxPolls, was answered
\* processing, and the loop sleeps to poll again
C15_StillPolling ==
    \E p \in Tasks :
        /\ task[p].op = "finalize"
        /\ task[p].pc = "sleep"
        /\ Polls(task[p]) = MaxPolls - 1
        /\ task[p].sleeps = MaxPolls - 1

\* C16: the first poll follows the finalize POST without a sleep, a sleep of
\* the caller's delay separates two consecutive polls, and no sleep follows
\* the last poll: finalize has slept one time less than it has polled, and
\* as often as it has polled while it sleeps.
C16_OneSleepBetweenPolls ==
    /\ \A p \in Tasks :
          task[p].op = "finalize" =>
              /\ task[p].delay \in 1..MaxDelay
              /\ task[p].url = "finalize" =>
                    (task[p].sleeps = 0 /\ task[p].pc # "sleep")
              /\ (task[p].url = "order" /\ task[p].pc # "sleep") =>
                    task[p].sleeps = Polls(task[p]) - 1
              /\ task[p].pc = "sleep" =>
                    /\ task[p].sleeps = Polls(task[p])
                    /\ task[p].slept = task[p].delay
    /\ (ret.op = "finalize" /\ Polls(ret) >= 1) =>
          ret.sleeps = Polls(ret) - 1

\* C16 witness: finalize succeeded on its third poll, after two sleeps
C16_ThreePollsTwoSleeps ==
    /\ ret.op = "finalize"
    /\ ret.res = "ok"
    /\ Polls(ret) = 3
    /\ ret.sleeps = 2

\* a poll of finalize by task p ends in this step: its signed request was
\* sent and answered, or failed
PollEnds(p) ==
    /\ task[p].op = "finalize"
    /\ task[p].url = "order"
    /\ task[p].pc = "post"
    /\ task'[p] # task[p]

\* a step in which a poll ends does so with finalize returning, with the
\* sleep after a processing response, or with the Transport's own badNonce
\* retry of the same call; and finalize returning a call error from a poll
\* returns it as the error, with no CertOrder, the CSR having been submitted
PollErrorReturned ==
    /\ \A p \in Tasks :
          PollEnds(p) =>
              \/ task'[p] = IdleTask /\ ret'.op = "finalize"
              \/ task'[p].pc = "sleep" /\ ret' = NoReturn
              \/ /\ task'[p].pc = "nonce"
                 /\ task'[p].tries = task[p].tries + 1
                 /\ task'[p].calls = task[p].calls
    /\ (ret'.op = "finalize" /\ ret'.why \in CallErrors /\ Polls(ret') >= 1) =>
          /\ ret'.res = "err"
          /\ certOrders' = certOrders
          /\ history'[ret'.obj].posts >= 1
          /\ \A p \in Tasks : task'[p].op # "finalize"

\* C17: the error of a poll's transport call is not retried by the polling
\* loop: it ends the loop in the step it occurs, and finalize returns it
\* with no CertOrder although the CSR was submitted.
C17_PollErrorEndsFinalize == [][PollErrorReturned]_vars

\* C17 witness: the second poll got no response and finalize returned the
\* network error
C17_PollNetworkError ==
    /\ ret.op = "finalize"
    /\ ret.why = "neterr"
    /\ ret.res = "err"
    /\ Polls(ret) = 2

-----------------------------------------------------------------------------
(* NewOrder: refresh, authorizations and the cached order *)

\* a step in which refresh returns: on an error the cached orders are as
\* before; on success the order refreshed has the status of the response
\* and its URL as before, and the other orders are as before
RefreshReplacesOnSuccess ==
    /\ (ret'.op = "refresh" /\ ret'.res = "err") => newOrders' = newOrders
    /\ (ret'.op = "refresh" /\ ret'.res = "ok") =>
          /\ newOrders'[ret'.obj].status = ret'.seen
          /\ newOrders'[ret'.obj].url = newOrders[ret'.obj].url
          /\ \A o \in DOMAIN newOrders \ {ret'.obj} : newOrders'[o] = newOrders[o]
    /\ \A p \in Tasks : task'[p].op = "refresh" => newOrders' = newOrders

\* C18: refresh replaces the cached order by the server's response only
\* when the call and the decoding succeed; when refresh fails the cached
\* order and its URL are unchanged.
C18_RefreshReplacesOnlyOnSuccess == [][RefreshReplacesOnSuccess]_vars

\* C18 witness: refresh failed on a body that does not decode, and the order
\* is still cached as ready
C18_FailedRefreshKeptReady ==
    /\ ret.op = "refresh"
    /\ ret.why = "decode"
    /\ newOrders[ret.obj].status = "ready"

\* a step changes a cached order only as a refresh of it returning success;
\* is_validated and confirm_validations return what the cached status
\* gives, without a call, a nonce or a change of the cached orders;
\* authorizations leaves the cached orders as they are
CachedOrderChangesByRefresh ==
    /\ \A o \in DOMAIN newOrders :
          newOrders'[o] # newOrders[o] =>
              /\ ret'.op = "refresh"
              /\ ret'.res = "ok"
              /\ ret'.obj = o
    /\ ret'.op \in {"is_validated", "confirm_validations"} =>
          /\ ret'.calls = 0
          /\ ret'.seen = newOrders[ret'.obj].status
          /\ UNCHANGED <<newOrders, task, pool, nonceUses>>
    /\ (ret'.op = "authorizations" \/ \E p \in Tasks : task'[p].op = "authorizations") =>
          newOrders' = newOrders

\* C19: the cached status of a NewOrder changes only through a successful
\* refresh: is_validated, confirm_validations and authorizations leave the
\* cached order unchanged, and the first two send no request.
C19_CachedStatusChangesOnlyByRefresh == [][CachedOrderChangesByRefresh]_vars

\* C19 witness: confirm_validations yielded nothing from an order cached as
\* pending
C19_NothingFromPending ==
    /\ ret.op = "confirm_validations"
    /\ ret.res = "nothing"
    /\ newOrders[ret.obj].status = "pending"

\* s is an initial part of t
IsPrefix(s, t) ==
    /\ Len(s) <= Len(t)
    /\ \A i \in 1..Len(s) : s[i] = t[i]

\* C20: authorizations calls the URLs of the cached order's authorizations
\* list one after another in list order, one call per URL, and on success
\* returns one Auth per URL in that order (the empty list without a call
\* when the list is empty); when a fetch fails it calls no further URL and
\* returns the error, without a list.
C20_AuthorizationsInListOrder ==
    /\ \A p \in Tasks :
          task[p].op = "authorizations" =>
              /\ IsPrefix(task[p].asked, newOrders[task[p].obj].authorizations)
              /\ task[p].calls = Len(task[p].asked)
              /\ task[p].calls >= 1
              /\ task[p].url = task[p].asked[Len(task[p].asked)]
              /\ Len(task[p].got) = Len(task[p].asked) - 1
    /\ ret.op = "authorizations" =>
          LET urls == newOrders[ret.obj].authorizations
          IN  /\ IsPrefix(ret.asked, urls)
              /\ ret.calls = Len(ret.asked)
              /\ ret.res = "ok" =>
                    /\ ret.asked = urls
                    /\ ret.auths = [i \in 1..Len(urls) |-> Auth_new(urls[i])]
              /\ ret.res = "err" =>
                    /\ ret.asked # <<>>
                    /\ ret.auths = <<>>
              /\ urls = <<>> => (ret.res = "ok" /\ ret.calls = 0)

\* C20 witness: authorizations returned the two Auths of a list of two
\* different URLs
C20_TwoAuthsReturned ==
    /\ ret.op = "authorizations"
    /\ ret.res = "ok"
    /\ Len(ret.auths) = 2
    /\ ret.auths[1] # ret.auths[2]

-----------------------------------------------------------------------------
(* The key id of a Transport *)

\* a step changes the key id of a transport only from none to the Location
\* of the newAccount response, as upsert_account returns the Account over
\* that transport from its JWK call; a key id that is set stays, with its
\* transport; and upsert_account returning an error sets no key id
KeyIdSetOnce ==
    /\ \A t \in DOMAIN transports :
          /\ transports[t].key_id # "none" => transports'[t] = transports[t]
          /\ transports'[t].key_id # transports[t].key_id =>
                /\ transports[t].key_id = "none"
                /\ ret'.op = "upsert"
                /\ ret'.res = "ok"
                /\ ret'.seen = transports'[t].key_id
                /\ transports'[t].account
                /\ \E p \in Tasks : /\ task[p].op = "upsert"
                                    /\ task[p].tr = t
                                    /\ task[p].pc = "post"
                                    /\ task[p].mode = "jwk"
          /\ (transports'[t].account /\ ~transports[t].account) =>
                transports'[t].key_id # transports[t].key_id
    /\ (ret'.op = "upsert" /\ ret'.res = "err") =>
          \A t \in DOMAIN transports :
              transports'[t].key_id = transports[t].key_id

\* C21: the key id of each transport made by register_account or
\* load_account is set exactly once, when the JWK newAccount call has
\* succeeded and its Location header and body have been read, is never
\* changed afterwards, and is never set when one of those steps fails.
C21_KeyIdSetExactlyOnce == [][KeyIdSetOnce]_vars

\* C21 witness: an order was created on an Account whose transport carries
\* the key id set by upsert_account
C21_KeyIdInUse ==
    /\ ret.op = "new_order"
    /\ ret.res = "ok"
    /\ transports[newOrders[ret.obj].tr].account
    /\ transports[newOrders[ret.obj].tr].key_id # "none"

====
